---- MODULE Spec2Model ----
(***************************************************************************)
(* Model of os-metrics-to-influxdb.py: the module-level write path (encode *)
(* two samples as line protocol, batch them, POST each batch) and the      *)
(* auxiliary get_org_id function.                                          *)
(*                                                                         *)
(* Strings are sequences of tokens.  An encoded line is one token that     *)
(* carries its measurement, its value and its length in characters; the    *)
(* newline is a token of its own.  len() of a line is the token's length.  *)
(***************************************************************************)
EXTENDS Integers, Sequences, FiniteSets

VARIABLES args, metric_line_proto, request_headers, to_send, counter,
          lines_to_send, idx, pc, posts, printed,
          org_response, org_pc, org_id, org_log

vars == <<args, metric_line_proto, request_headers, to_send, counter,
          lines_to_send, idx, pc, posts, printed,
          org_response, org_pc, org_id, org_log>>

writeVars == <<args, metric_line_proto, request_headers, to_send, counter,
               lines_to_send, idx, pc, posts, printed>>

orgVars == <<org_response, org_pc, org_id, org_log>>

(***************************************************************************)
(* Bounds of the model.                                                    *)
(***************************************************************************)
MaxLines == 3

RateLimitsBelowZero == 1

MaxRateLimit == 2

MaxOrgs == 2

(* Line lengths tried for arbitrary inputs: far below, exactly at, and     *)
(* just above one KiB.                                                     *)
LineLens == {40, 1024, 1100}

(* psutil percentages, in tenths of a percent: 0.0, 42.5, 100.0.           *)
SampleTenths == {0, 425, 1000}

StatusCodes == {204, 400}

Exceptions == {"Timeout", "ConnectionError"}

OrgStatusCodes == {200, 201, 401, 404, 500}

OrgIds == {"0a1", "0b2", "0c3"}

(***************************************************************************)
(* Line encoder (lines 125-128).                                           *)
(***************************************************************************)
CpuPrefixLen == 43

MemoryPrefixLen == 46

(* len(str(x)) for a float x in [0.0, 100.0] with one decimal, x given in  *)
(* tenths: "0.0".."9.9", "10.0".."99.9", "100.0".                         *)
FloatStrLen(t) == IF t < 100 THEN 3 ELSE IF t < 1000 THEN 4 ELSE 5

CpuLine(cpu_util) ==
    [m |-> "cpu_utilisation", v |-> cpu_util,
     len |-> CpuPrefixLen + FloatStrLen(cpu_util)]

MemoryLine(memory_util) ==
    [m |-> "memory_utilisation", v |-> memory_util,
     len |-> MemoryPrefixLen + FloatStrLen(memory_util)]

MetricLineProto(cpu_util, memory_util) ==
    <<CpuLine(cpu_util), MemoryLine(memory_util)>>

NL == [m |-> "\n", v |-> 0, len |-> 1]

(* Arbitrary encoded lines, for the claims stated over any input.          *)
Lines == [m : {"cpu_utilisation", "memory_utilisation"}, v : {425}, len : LineLens]

RECURSIVE SeqsUpTo(_, _)
SeqsUpTo(S, n) ==
    IF n = 0 THEN {<<>>}
    ELSE LET shorter == SeqsUpTo(S, n - 1)
         IN  shorter \cup {Append(s, x) : s \in {t \in shorter : Len(t) = n - 1}, x \in S}

(***************************************************************************)
(* Request headers (lines 134-137).                                        *)
(***************************************************************************)
GzipHeader == <<"Content-Encoding", "gzip">>

RequestHeaders(a) ==
    {<<"Authorization", "Token">>,
     <<"Content-type", "text/plain; charset=utf-8">>,
     <<"Accept", "application/json">>}
    \cup (IF a.influxdb_gzip THEN {GzipHeader} ELSE {})

(***************************************************************************)
(* Batching loop (lines 138-154).                                          *)
(***************************************************************************)
KiB == 1024

LimitBytes_NoKiB(a) == a.influxdb_rate_limit

LimitBytes(a) == a.influxdb_rate_limit * KiB

AddLen_CountLines(c, line) == c + 1

(* counter += len(line) *)
AddLen(c, line) == c + line.len

AppendLine_Overwrite(buf, line) == <<line, NL>>

(* to_send += f"{line}\n" *)
AppendLine(buf, line) == buf \o <<line, NL>>

FlushDue_Always(c, remaining, a) == TRUE

FlushDue_Strict(c, remaining, a) == c > LimitBytes(a) \/ remaining = 0

(* counter >= args.influxdb_rate_limit*1024 or lines_to_send == 0 *)
FlushDue(c, remaining, a) == c >= LimitBytes(a) \/ remaining = 0

(* What requests.post does: it returns a response of some status, or it    *)
(* raises (timeout, connection error).                                     *)
Outcomes ==
    [kind : {"response"}, status_code : StatusCodes, exc : {"none"}]
    \cup [kind : {"exception"}, status_code : {0}, exc : Exceptions]

Raised_Never(o) == FALSE

Raised_OnHttpError(o) == o.kind = "exception" \/ o.status_code >= 400

(* requests.post raises instead of returning; nothing catches it.          *)
Raised(o) == o.kind = "exception"

Exhausted_Never(i, lines) == FALSE

(* The for loop has consumed the whole list.                               *)
Exhausted(i, lines) == i > Len(lines)

InitOrgIdle ==
    /\ org_response = [status_code |-> 200, orgs |-> <<>>]
    /\ org_pc = "idle"
    /\ org_id = "none"
    /\ org_log = <<>>

InitLoop ==
    /\ request_headers = RequestHeaders(args)
    /\ to_send = <<>>
    /\ counter = 0
    /\ lines_to_send = Len(metric_line_proto)
    /\ idx = 1
    /\ pc = "loop"
    /\ posts = <<>>
    /\ printed = <<>>

ArgSpace ==
    [influxdb_rate_limit : -RateLimitsBelowZero..MaxRateLimit, influxdb_gzip : BOOLEAN]

(* The batching loop over any list of encoded lines.                       *)
Init ==
    /\ args \in ArgSpace
    /\ metric_line_proto \in SeqsUpTo(Lines, MaxLines)
    /\ InitLoop
    /\ InitOrgIdle

(* The program as written: the list holds the CPU line and the memory line.*)
InitProgram ==
    /\ args \in ArgSpace
    /\ \E cpu_util \in SampleTenths, memory_util \in SampleTenths :
           metric_line_proto = MetricLineProto(cpu_util, memory_util)
    /\ InitLoop
    /\ InitOrgIdle

(* One iteration whose flush condition is false (lines 143-146).           *)
IterateNoFlush ==
    /\ pc = "loop"
    /\ idx \in DOMAIN metric_line_proto
    /\ LET line == metric_line_proto[idx] IN
         /\ ~FlushDue(AddLen(counter, line), lines_to_send - 1, args)
         /\ lines_to_send' = lines_to_send - 1
         /\ counter' = AddLen(counter, line)
         /\ to_send' = AppendLine(to_send, line)
         /\ idx' = idx + 1
    /\ UNCHANGED <<args, metric_line_proto, request_headers, pc, posts, printed>>
    /\ UNCHANGED orgVars

(* One iteration that POSTs and gets a response back (lines 143-154).      *)
IterateFlushResponse ==
    /\ pc = "loop"
    /\ idx \in DOMAIN metric_line_proto
    /\ LET line == metric_line_proto[idx] IN
         /\ FlushDue(AddLen(counter, line), lines_to_send - 1, args)
         /\ \E o \in Outcomes :
              /\ ~Raised(o)
              /\ posts' = Append(posts, [headers |-> request_headers,
                                         data |-> AppendLine(to_send, line),
                                         outcome |-> o])
              /\ printed' = Append(printed, o.status_code)
         /\ lines_to_send' = lines_to_send - 1
         /\ counter' = 0
         /\ to_send' = <<>>
         /\ idx' = idx + 1
    /\ UNCHANGED <<args, metric_line_proto, request_headers, pc>>
    /\ UNCHANGED orgVars

(* One iteration whose POST raises: the exception is not caught and the    *)
(* process dies at line 147.                                               *)
IterateFlushRaise ==
    /\ pc = "loop"
    /\ idx \in DOMAIN metric_line_proto
    /\ LET line == metric_line_proto[idx] IN
         /\ FlushDue(AddLen(counter, line), lines_to_send - 1, args)
         /\ \E o \in Outcomes :
              /\ Raised(o)
              /\ posts' = Append(posts, [headers |-> request_headers,
                                         data |-> AppendLine(to_send, line),
                                         outcome |-> o])
         /\ lines_to_send' = lines_to_send - 1
         /\ counter' = AddLen(counter, line)
         /\ to_send' = AppendLine(to_send, line)
         /\ pc' = "aborted"
    /\ UNCHANGED <<args, metric_line_proto, request_headers, idx, printed>>
    /\ UNCHANGED orgVars

(* The list is exhausted: the script ends.                                 *)
LoopExit ==
    /\ pc = "loop"
    /\ Exhausted(idx, metric_line_proto)
    /\ pc' = "done"
    /\ UNCHANGED <<args, metric_line_proto, request_headers, to_send, counter,
                   lines_to_send, idx, posts, printed>>
    /\ UNCHANGED orgVars

Next ==
    \/ IterateNoFlush
    \/ IterateFlushResponse
    \/ IterateFlushRaise
    \/ LoopExit

Spec == Init /\ [][Next]_vars

SpecProgram == InitProgram /\ [][Next]_vars

(* requests.post is given a timeout, so every call returns or raises.      *)
FairSpec == Init /\ [][Next]_vars /\ WF_vars(Next)

(***************************************************************************)
(* get_org_id (lines 85-110).  org_response is the answer the server gives *)
(* to the GET; the body is JSON and carries the "orgs" list.               *)
(***************************************************************************)
StatusOk_Any2xx(s) == s \in 200..299

(* org_response.status_code != 200 is the failure test of line 99.         *)
StatusOk(s) == s = 200

(* not bool(org_response.json()["orgs"]) *)
OrgsEmpty(orgs) == Len(orgs) = 0

(* str(org_response.json()["orgs"][0]["id"]) *)
FirstOrgId(orgs) == orgs[1]

OrgResponses ==
    [status_code : OrgStatusCodes, orgs : SeqsUpTo(OrgIds, MaxOrgs)]

InitOrg ==
    /\ args = [influxdb_rate_limit |-> 1, influxdb_gzip |-> FALSE]
    /\ metric_line_proto = MetricLineProto(0, 0)
    /\ InitLoop
    /\ org_response \in OrgResponses
    /\ org_pc = "call"
    /\ org_id = "none"
    /\ org_log = <<>>

(* requests.get raises (timeout, connection error): no response at all.    *)
GetOrgIdRaise ==
    /\ org_pc = "call"
    /\ org_pc' = "raised"
    /\ UNCHANGED <<org_response, org_id, org_log>>
    /\ UNCHANGED writeVars

(* Lines 99-103: unexpected status, logging.error, sys.exit().             *)
GetOrgIdBadStatus ==
    /\ org_pc = "call"
    /\ ~StatusOk(org_response.status_code)
    /\ org_log' = Append(org_log, "Unexpected response")
    /\ org_pc' = "exited"
    /\ UNCHANGED <<org_response, org_id>>
    /\ UNCHANGED writeVars

(* Lines 105-109: empty organisation list, logging.error, sys.exit().      *)
GetOrgIdEmpty ==
    /\ org_pc = "call"
    /\ StatusOk(org_response.status_code)
    /\ OrgsEmpty(org_response.orgs)
    /\ org_log' = Append(org_log, "Organisation name may be incorrect")
    /\ org_pc' = "exited"
    /\ UNCHANGED <<org_response, org_id>>
    /\ UNCHANGED writeVars

(* Line 110: the id of the first entry is returned.                        *)
GetOrgIdReturn ==
    /\ org_pc = "call"
    /\ StatusOk(org_response.status_code)
    /\ ~OrgsEmpty(org_response.orgs)
    /\ org_id' = FirstOrgId(org_response.orgs)
    /\ org_pc' = "returned"
    /\ UNCHANGED <<org_response, org_log>>
    /\ UNCHANGED writeVars

NextOrg ==
    \/ GetOrgIdRaise
    \/ GetOrgIdBadStatus
    \/ GetOrgIdEmpty
    \/ GetOrgIdReturn

SpecOrg == InitOrg /\ [][NextOrg]_vars

(***************************************************************************)
(* Vocabulary of the properties.                                           *)
(***************************************************************************)
N == Len(metric_line_proto)

Limit == args.influxdb_rate_limit * 1024

Terminal == pc \in {"done", "aborted"}

(* The text of a line, as a string of tokens.                              *)
LineText(l) == <<l>>

InputTexts == [i \in 1..N |-> LineText(metric_line_proto[i])]

RECURSIVE TextLen(_)
TextLen(t) == IF t = <<>> THEN 0 ELSE Head(t).len + TextLen(Tail(t))

(* str.splitlines: the newline-terminated segments of a body.              *)
RECURSIVE SplitFrom(_, _, _)
SplitFrom(data, i, cur) ==
    IF i > Len(data) THEN (IF cur = <<>> THEN <<>> ELSE <<cur>>)
    ELSE IF data[i] = NL THEN <<cur>> \o SplitFrom(data, i + 1, <<>>)
    ELSE SplitFrom(data, i + 1, Append(cur, data[i]))

SplitLines(data) == SplitFrom(data, 1, <<>>)

(* The lines of the k-th POSTed body.                                      *)
PostedBatch(k) == SplitLines(posts[k].data)

PostedBatches == [k \in 1..Len(posts) |-> PostedBatch(k)]

RECURSIVE BatchSize(_)
BatchSize(b) == IF b = <<>> THEN 0 ELSE TextLen(Head(b)) + BatchSize(Tail(b))

RECURSIVE Concat(_)
Concat(ss) == IF ss = <<>> THEN <<>> ELSE Head(ss) \o Concat(Tail(ss))

SentLines == Concat(PostedBatches)

(* Number of input lines covered by the first k POSTs.                     *)
LinesThrough(k) == Len(Concat(SubSeq(PostedBatches, 1, k)))

(* Reference policy: after appending line i, close the batch iff the size  *)
(* since the last close is >= L or i is the final line.                    *)
RECURSIVE RefFrom(_, _, _, _)
RefFrom(texts, L, i, cur) ==
    IF i > Len(texts) THEN <<>>
    ELSE LET cur2 == Append(cur, texts[i])
         IN  IF BatchSize(cur2) >= L \/ i = Len(texts)
             THEN <<cur2>> \o RefFrom(texts, L, i + 1, <<>>)
             ELSE RefFrom(texts, L, i + 1, cur2)

RefBatches == RefFrom(InputTexts, Limit, 1, <<>>)

IsResponse(k) == posts[k].outcome.kind = "response"

IsFailure(k) == posts[k].outcome.kind = "exception"

(* A gzip stream starts with the gzip magic number.                        *)
IsGzip(data) == data # <<>> /\ data[1].m = "gzip-magic"

(***************************************************************************)
(* Properties.                                                             *)
(***************************************************************************)

(* C1 - Completeness: when every POST returned a response and the loop has *)
(* ended, the lines of all POSTed bodies, concatenated in the order of the *)
(* POSTs, are exactly the input sequence, and the staging buffer is empty. *)
Completeness ==
    pc = "done" => (SentLines = InputTexts /\ to_send = <<>>)

(* A finished run of at least two POSTs, one of them carrying two lines.   *)
CompletenessWitness ==
    /\ pc = "done"
    /\ Len(posts) >= 2
    /\ \E k \in 1..Len(posts) : Len(PostedBatch(k)) >= 2

(* C2 - Batching threshold: every POSTed batch is non-empty, and its       *)
(* cumulative line size is >= the limit or it holds the final input line.  *)
BatchingThreshold ==
    \A k \in 1..Len(posts) :
        /\ Len(PostedBatch(k)) >= 1
        /\ \/ BatchSize(PostedBatch(k)) >= Limit
           \/ LinesThrough(k) = N

(* One batch closed by the threshold alone, a later one by the last-line   *)
(* rule alone.                                                             *)
BatchingThresholdWitness ==
    /\ \E k \in 1..Len(posts) :
          BatchSize(PostedBatch(k)) >= Limit /\ LinesThrough(k) < N
    /\ \E k \in 1..Len(posts) :
          BatchSize(PostedBatch(k)) < Limit /\ LinesThrough(k) = N

(* C3 as stated - Batch size bound: every POSTed batch has a cumulative    *)
(* line size of at most the limit, unless it is the batch closed for       *)
(* holding the last input line.                                            *)
BatchSizeBound ==
    \A k \in 1..Len(posts) :
        \/ BatchSize(PostedBatch(k)) <= Limit
        \/ LinesThrough(k) = N

(* C3 as amended - every POSTed batch of more than one line has, without   *)
(* the last line appended to it, a cumulative line size below the limit: a *)
(* batch exceeds the limit by less than the length of its last line.       *)
BatchSizeBoundAmended ==
    \A k \in 1..Len(posts) :
        LET b == PostedBatch(k) IN
            \/ Len(b) = 1
            \/ BatchSize(b) - TextLen(b[Len(b)]) < Limit

(* A batch of two or more lines over the limit that is not the last one.   *)
BatchSizeBoundWitness ==
    \E k \in 1..Len(posts) :
        /\ Len(PostedBatch(k)) >= 2
        /\ BatchSize(PostedBatch(k)) > Limit
        /\ LinesThrough(k) < N

(* C4 as stated - Flush rule is exact: the batches of a finished run are   *)
(* those of the reference policy; the counter is strictly below the limit  *)
(* whenever a line is about to be appended; an empty input gives no batch  *)
(* and a single line gives one batch holding just that line.               *)
FlushRuleExact ==
    /\ pc = "done" => PostedBatches = RefBatches
    /\ (pc = "loop" /\ idx \in DOMAIN metric_line_proto) => counter < Limit
    /\ (pc = "done" /\ N = 0) => posts = <<>>
    /\ (pc = "done" /\ N = 1) => PostedBatches = <<InputTexts>>

(* C4 as amended - as stated, except that the counter is strictly below    *)
(* the limit before an append only when the limit is positive; with a      *)
(* limit <= 0 the counter is 0 there.                                      *)
FlushRuleExactAmended ==
    /\ pc = "done" => PostedBatches = RefBatches
    /\ (pc = "loop" /\ idx \in DOMAIN metric_line_proto) =>
           IF Limit > 0 THEN counter < Limit ELSE counter = 0
    /\ (pc = "done" /\ N = 0) => posts = <<>>
    /\ (pc = "done" /\ N = 1) => PostedBatches = <<InputTexts>>

(* A finished run whose first batch was closed at exactly the limit, with  *)
(* lines still to come.                                                    *)
FlushRuleExactWitness ==
    /\ pc = "done"
    /\ Limit > 0
    /\ Len(posts) >= 2
    /\ BatchSize(PostedBatch(1)) = Limit

(* C5 - Gzip header/body consistency: a POST carries Content-Encoding:     *)
(* gzip only with a gzip-compressed body; with influxdb_gzip on the body   *)
(* is compressed, with it off the header is absent and the body is plain.  *)
GzipConsistency ==
    \A k \in 1..Len(posts) :
        /\ GzipHeader \in posts[k].headers => IsGzip(posts[k].data)
        /\ args.influxdb_gzip => IsGzip(posts[k].data)
        /\ ~args.influxdb_gzip =>
               (GzipHeader \notin posts[k].headers /\ ~IsGzip(posts[k].data))

(* C6 as stated - Independent send attempts: when the run has ended, every *)
(* batch of the input has been attempted, in order, whatever the outcome   *)
(* of the earlier calls.                                                   *)
IndependentSendAttempts ==
    Terminal => PostedBatches = RefBatches

(* C6 as amended - a POST that times out or fails with a network error     *)
(* ends the run: it is the last attempt, and a run that ends otherwise has *)
(* had no failed POST; POSTs that returned are never the reason a later    *)
(* batch is left out.                                                      *)
AbortOnFailedSend ==
    /\ \A k \in 1..Len(posts) :
           IsFailure(k) => (k = Len(posts) /\ pc = "aborted")
    /\ pc = "aborted" => (posts # <<>> /\ IsFailure(Len(posts)))
    /\ pc = "done" => Len(posts) = Len(RefBatches)

(* A run aborted by a failed POST with batches left that were never sent.  *)
AbortOnFailedSendWitness ==
    /\ pc = "aborted"
    /\ Len(posts) < Len(RefBatches)

(* C7 - Fire-and-forget: the POSTs are the batches of the input, each at   *)
(* most once and in order; when the run has ended, a batch was attempted   *)
(* exactly when all POSTs before it returned a response, of any status.    *)
FireAndForget ==
    /\ Len(posts) <= Len(RefBatches)
    /\ \A k \in 1..Len(posts) : PostedBatch(k) = RefBatches[k]
    /\ Terminal =>
           \A j \in 1..Len(RefBatches) :
               (j <= Len(posts)) <=>
                   (\A k \in 1..(j - 1) : k <= Len(posts) /\ IsResponse(k))

(* A finished run that went on after a non-2xx response.                   *)
FireAndForgetWitness ==
    /\ pc = "done"
    /\ Len(posts) >= 2
    /\ posts[1].outcome.status_code = 400

ProgramPosts ==
    pc = "done" =>
        LET cpu == metric_line_proto[1]
            mem == metric_line_proto[2]
        IN  /\ cpu.m = "cpu_utilisation"
            /\ mem.m = "memory_utilisation"
            /\ cpu.len < 1024 /\ mem.len < 1024
            /\ IF args.influxdb_rate_limit >= 1
               THEN /\ Len(posts) = 1
                    /\ posts[1].data = <<cpu, NL, mem, NL>>
               ELSE /\ Len(posts) = 2
                    /\ posts[1].data = <<cpu, NL>>
                    /\ posts[2].data = <<mem, NL>>

(* A finished run of the program with a positive rate limit.               *)
ProgramPostsWitness ==
    /\ pc = "done"
    /\ args.influxdb_rate_limit >= 1
    /\ Len(posts) = 1

(* C10 - Termination: every run ends, done or aborted; it never makes more *)
(* than N POSTs, never moves backwards in the list and never leaves an     *)
(* ended state.                                                            *)
Termination ==
    /\ <>Terminal
    /\ [](Len(posts) <= N)
    /\ [][idx' >= idx /\ (Terminal => pc' = pc /\ posts' = posts)]_vars

(* A finished run that made one POST per line.                             *)
TerminationWitness ==
    /\ pc = "done"
    /\ N = MaxLines
    /\ Len(posts) = N

====
